---- MODULE Spec2Model ----
(***************************************************************************)
(* A model of examples/mpt-library/mpt_impl.cpp: the weight-file loader    *)
(* (mpt_model_load), the forward pass's buffer management and key/value    *)
(* cache addressing (mpt_eval), and the Mpt object with its decode loop    *)
(* (Mpt::Mpt, Mpt::ProcessTokenizedMessage).                               *)
(*                                                                         *)
(* A forward pass is its effect on the static buffers and on the cells of  *)
(* the key/value cache, and a logits value.  The arithmetic of ggml's      *)
(* operators is stood in for by fixed maps over residues that keep what    *)
(* each operator's result depends on.                                      *)
(***************************************************************************)
EXTENDS Integers, Sequences, FiniteSets, TLC

(***************************************************************************)
(* Bounds of the model.                                                    *)
(***************************************************************************)
\* longest prompt given to ProcessTokenizedMessage (besides LongPrompts)
MaxPrompt == 2
\* largest params.n_predict
MaxPredict == 2
\* largest params.n_ctx and largest max_seq_len of a weight file
MaxCtx == 5
\* largest batch handed to mpt_eval by the stand-alone evaluation driver
MaxN == 6
\* number of mpt_eval calls the stand-alone evaluation driver makes
MaxCalls == 3

(***************************************************************************)
(* Program constants.                                                      *)
(***************************************************************************)
\* static size_t buf_size = 256u * 1024 * 1024  (also scr0_size, scr1_size)
DefaultBufSize == 268435456
\* the warm-up pass evaluates the four tokens {0, 1, 2, 3}
WarmupN == 4
\* number of transformer layers of the loaded model (hparams.n_layers)
NLayers == 2

VARIABLES
  \* ---- the Mpt object
  pc,            \* "new" | "idle" | "unloaded" | "loop" | "chunks" | "done"
                 \* | "crashed"
  params,        \* Mpt::params
  hparams,       \* model.hparams (n_ctx, n_layers, n_vocab)
  rng,           \* Mpt::rng, a std::mt19937: its seed and the draws made
  ctor_ret,      \* how Mpt::Mpt ended: "none" | "returned"
  load_ok,       \* what mpt_model_load returned to Mpt::Mpt
  vocab,         \* Mpt::vocab: the maps token_to_id and id_to_token
  \* ---- locals of ProcessTokenizedMessage
  embd_inp, embd, logits, last_n_tokens,
  n_past, n_consumed, n_sampled,
  result,        \* the std::string result: the bytes appended so far
  sink,          \* the texts handed to OnNewTokenProcessed, in call order
  placed,        \* history: the ids pushed into embd by the loop, in order
  ret,           \* "none" | "result" | "mpt_eval error"
  exit_by,       \* "none" | "limit" | "eos" | "eval"
  last_step,     \* "none" | "prompt" | "sample" : what the last iteration did
  \* ---- mpt_eval: its caller's estimate, its statics, its calls
  mem_per_token, buf_size, buf, scr0_size, scr1_size,
  evals,         \* the calls that got past the reallocation
  eval_ret,      \* "none" | "ok" | "fail" : the last call's return value
  memory_k,      \* model.memory_k: cell (il * n_ctx + position) -> value
  memory_v,      \* model.memory_v, addressed the same way
  \* ---- locals of LogPerplexity
  lp_i,          \* the chunk index i
  lp_j,          \* the batch index j within the chunk
  \* ---- mpt_model_load
  lpc,           \* "off" | "start" | "records" | "returned"
  fin,           \* the stream: "good" | "eof" (eofbit and failbit set)
  model_tensors, \* model.tensors: name -> [ne, type] of the registered tensor
  model_ctx,     \* model.ctx: "null" | "valid"
  copies,        \* the payload reads made, in order: [rec, filled]
  n_read,        \* the tensor records whose header was read
  last_rec,      \* the record read last
  load_ret,      \* "none" | "true" | "false"
  fail_at        \* the step that returned false

mptVars == <<pc, params, hparams, rng, ctor_ret, load_ok, vocab>>
ptmVars == <<embd_inp, embd, logits, last_n_tokens, n_past, n_consumed,
             n_sampled, result, sink, placed, ret, exit_by, last_step>>
evalVars == <<mem_per_token, buf_size, buf, scr0_size, scr1_size, evals,
              eval_ret>>
loadVars == <<lpc, fin, model_tensors, model_ctx, copies, n_read, last_rec,
              load_ret, fail_at>>
cacheVars == <<memory_k, memory_v>>
lpVars == <<lp_i, lp_j>>
vars == <<mptVars, ptmVars, evalVars, loadVars, cacheVars, lpVars>>

\* the token ids of the loaded vocabulary; id 0 is end-of-text
Tokens == {0, 1, 2}
NVocab == Cardinality(Tokens)
Min(a, b) == IF a < b THEN a ELSE b

RECURSIVE SeqsUpTo(_, _)
SeqsUpTo(S, n) ==
  IF n = 0 THEN {<<>>}
  ELSE LET shorter == SeqsUpTo(S, n - 1)
       IN shorter \cup {Append(s, x) : s \in {t \in shorter : Len(t) = n - 1},
                                        x \in S}

\* no tensor record read yet
NoRecord == [name |-> <<>>, ne |-> <<>>, ttype |-> "none"]

Zeros(n) == [i \in 1..n |-> 0]
Suffix(s, n) == SubSeq(s, Len(s) - n + 1, Len(s))

(***************************************************************************)
(* The vocabulary.  A token's text is a sequence of byte values; the       *)
(* vocabulary block of a weight file is the sequence of its n_vocab words  *)
(* as stored, each a UTF-8 byte string.                                    *)
(***************************************************************************)
\* gpt_vocab before anything is loaded: both maps empty
EmptyVocab == [token_to_id |-> <<>>, id_to_token |-> <<>>]

\* line 116: convert_to_wstring, the code points of a UTF-8 byte string
\* (its one-byte and two-byte forms)
RECURSIVE convert_to_wstring(_)
convert_to_wstring(bytes) ==
  IF bytes = <<>> THEN <<>>
  ELSE IF bytes[1] < 128 \/ Len(bytes) = 1
       THEN <<bytes[1]>> \o convert_to_wstring(Tail(bytes))
       ELSE <<(bytes[1] % 32) * 64 + (bytes[2] % 64)>>
              \o convert_to_wstring(Tail(Tail(bytes)))

\* lines 113-120: the word kept for a stored token: each code point cut to
\* its low eight bits, word[w] = uint8_t(word_multibytes[w])
convert_token(bytes) ==
  LET word_multibytes == convert_to_wstring(bytes)
  IN [w \in 1..Len(word_multibytes) |-> word_multibytes[w] % 256]

\* lines 107-124: the loop over the stored words, from index i on
RECURSIVE load_vocab_from(_, _, _, _)
load_vocab_from(v, i, n_vocab, words) ==
  IF i < n_vocab
  THEN LET word == convert_token(words[i + 1])
       IN load_vocab_from([token_to_id |-> (word :> i) @@ v.token_to_id,
                           id_to_token |-> (i :> word) @@ v.id_to_token],
                          i + 1, n_vocab, words)
  ELSE v

\* lines 100-125: the vocabulary block
load_vocab(v, n_vocab, words) == load_vocab_from(v, 0, n_vocab, words)

\* the vocabulary blocks of the weight files: "<" "A" "b"; "" "A" "A" (two
\* tokens with the same bytes); "<" "A" "\u0141" (U+0141 is stored as the
\* bytes C5 81)
PlainVocabFile == << <<60>>, <<65>>, <<98>> >>
RepeatVocabFile == << <<>>, <<65>>, <<65>> >>
VocabFiles == {PlainVocabFile, RepeatVocabFile,
               << <<60>>, <<65>>, <<197, 129>> >>}
\* the vocabulary blocks of the files an Mpt object is constructed from
MptVocabFiles == {PlainVocabFile, RepeatVocabFile}

\* line 1060: vocab.id_to_token[id]; std::map::operator[] gives the empty
\* string for an id the map does not hold
id_to_token(id) ==
  IF id \in DOMAIN vocab.id_to_token THEN vocab.id_to_token[id] ELSE <<>>

\* lines 1059-1063: the texts of the pending batch, and their concatenation
RECURSIVE batch_texts(_)
batch_texts(e) ==
  IF e = <<>> THEN <<>> ELSE <<id_to_token(Head(e))>> \o batch_texts(Tail(e))
RECURSIVE concat(_)
concat(texts) == IF texts = <<>> THEN <<>> ELSE Head(texts) \o concat(Tail(texts))


(***************************************************************************)
(* mpt_eval: the static buffers and the key/value cache addressing.        *)
(***************************************************************************)
\* ggml_used_mem(ctx0) of a pass: at most the size of the buffer it used
UsedMemValues == {WarmupN, DefaultBufSize}
\* the warm-up pass of ProcessTokenizedMessage: a pass that fills its buffer
WarmupUsedMem == {DefaultBufSize}

\* line 432: does the batch need a larger buffer than the current one
NeedsRealloc(e, N, size) == e > 0 /\ e * N > size

\* lines 433-435: size_t buf_size_new = 1.1 * (mem_per_token * N)
buf_size_new(e, N) == e * N + (e * N) \div 10

\* lines 507-514: the cache cells (in units of n_embd elements) that layer il
\* writes for a batch of N tokens at n_past
CacheWriteCells(il, np, N) == {il * hparams.n_ctx + np + i : i \in 0..(N - 1)}

\* lines 535-537 and 565-567: the cache cells layer il reads back
CacheReadCells(il, np, N) == {il * hparams.n_ctx + i : i \in 0..(np + N - 1)}

\* lines 258-262: memory_k and memory_v hold n_layer * n_ctx cells
CacheCells == 0..(hparams.n_layers * hparams.n_ctx - 1)

\* the cells of layer il: [il * n_ctx, (il + 1) * n_ctx)
LayerRegion(il) == (il * hparams.n_ctx)..((il + 1) * hparams.n_ctx - 1)

(***************************************************************************)
(* The graph of a forward pass.  An element of a tensor is a residue       *)
(* modulo FloatMod, or Undef: the indeterminate value read from memory     *)
(* that was never written or that lies outside the tensor; an operator     *)
(* applied to Undef gives Undef.  One value stands for the n_embd elements *)
(* of a token's column.                                                    *)
(***************************************************************************)
FloatMod == 251
Undef == -1

\* F(x), with x computed once before F is applied to it
Once(F(_), x) == CHOOSE y \in {F(v) : v \in {x}} : TRUE

\* the warm-up batch {0, 1, 2, 3}
WarmupTokens == [i \in 1..WarmupN |-> i - 1]

\* lines 258-262: memory_k and memory_v as ggml_new_tensor_1d leaves them:
\* n_layer * n_ctx cells, none written
kv_memory(n_layer, n_ctx) == [c \in 0..(n_layer * n_ctx - 1) |-> Undef]

\* line 465: ggml_get_rows(model.wte_weight, embd): the row of one token;
\* wte_weight has n_vocab rows
get_rows_wte(tok) ==
  IF tok \in 0..(hparams.n_vocab - 1) THEN (tok + 1) % FloatMod ELSE Undef

\* lines 479-482: a = norm_1_weight * norm(x), column by column
ln_1(il, x) == IF x = Undef THEN Undef ELSE (2 * x + il + 1) % FloatMod

\* lines 491-503: the Q, K and V parts of a column of Wqkv * a
Qcur(il, a) == IF a = Undef THEN Undef ELSE (3 * a + il + 1) % FloatMod
Kcur(il, a) == IF a = Undef THEN Undef ELSE (5 * a + il + 2) % FloatMod
Vcur(il, a) == IF a = Undef THEN Undef ELSE (7 * a + il + 3) % FloatMod

\* lines 509-510, 513-514 and 536, 566: the cell of a position of layer il
cache_cell(il, pos) == il * hparams.n_ctx + pos

\* lines 507-514 with the view starting at the head of the layer's region
cache_write_cell_no_past(il, np, i) == cache_cell(il, i)
\* lines 507-514: the cell that token i of a batch at n_past = np is stored in
cache_write_cell(il, np, i) == cache_cell(il, np + i)

\* lines 516-517: ggml_cpy of the batch's columns xs, from column i on, into
\* the view; a cell past the end of the tensor is not a cell of the tensor
RECURSIVE cache_store(_, _, _, _, _)
cache_store(mem, il, np, xs, i) ==
  IF i > Len(xs) THEN mem
  ELSE LET c == cache_write_cell(il, np, i - 1)
       IN Once(LAMBDA m : cache_store(m, il, np, xs, i + 1),
               IF c \in DOMAIN mem THEN [mem EXCEPT ![c] = xs[i]] ELSE mem)

\* lines 535-537, 565-567: an element of the view read back
cache_load(mem, c) == IF c \in DOMAIN mem THEN mem[c] ELSE Undef

\* lines 551-552: ggml_diag_mask_inf(KQ, n_past): the last key position that
\* row i of the batch attends to
diag_mask_inf(np, i) == np + i

\* lines 541-548, 555: the weight of key position j for one query: K * Q,
\* scaled, with the ALiBi bias of the key's position
kq_soft_max(k, q, j) ==
  LET kq == (k * q + j) % FloatMod IN (kq * kq + 1) % FloatMod

\* lines 531-574: one term of KQV: key position j added to the sum acc
kqv_add(acc, k, v, q, j) ==
  IF acc = Undef \/ k = Undef \/ v = Undef \/ q = Undef THEN Undef
  ELSE (acc + kq_soft_max(k, q, j) * v) % FloatMod

\* lines 531-574: KQV for one query over the key positions j..last of layer
\* il, added to acc
RECURSIVE attn_row(_, _, _, _, _, _, _)
attn_row(mk, mv, il, q, j, last, acc) ==
  IF j > last THEN acc
  ELSE Once(LAMBDA a : attn_row(mk, mv, il, q, j + 1, last, a),
            kqv_add(acc, cache_load(mk, cache_cell(il, j)),
                    cache_load(mv, cache_cell(il, j)), q, j))

\* lines 583-589: x + out_proj * KQV_merged
attn_out(il, x, att) ==
  IF Undef \in {x, att} THEN Undef ELSE (x + 9 * att + il) % FloatMod

\* lines 597-619: x + ffn_down_proj * gelu(ffn_up_proj * norm_2(x))
ffn_out(il, x) == IF x = Undef THEN Undef ELSE (x + x * x + il + 4) % FloatMod

\* lines 628-642, 664-668: the logits of one column: norm_f, then wte_weight
lm_head(x) == IF x = Undef THEN Undef ELSE (11 * x + 5) % FloatMod

\* lines 491-503: Kcur and Vcur of the batch, column by column
RECURSIVE Kcur_columns(_, _)
Kcur_columns(il, inpL) ==
  IF inpL = <<>> THEN <<>>
  ELSE <<Kcur(il, ln_1(il, Head(inpL)))>> \o Kcur_columns(il, Tail(inpL))
RECURSIVE Vcur_columns(_, _)
Vcur_columns(il, inpL) ==
  IF inpL = <<>> THEN <<>>
  ELSE <<Vcur(il, ln_1(il, Head(inpL)))>> \o Vcur_columns(il, Tail(inpL))

\* lines 520-619: the columns i.. of layer il's output, the cache holding the
\* batch's keys and values
RECURSIVE layer_columns(_, _, _, _, _, _)
layer_columns(mk, mv, inpL, il, np, i) ==
  IF i > Len(inpL) THEN <<>>
  ELSE LET KQV == Once(LAMBDA q : attn_row(mk, mv, il, q, 0,
                                           diag_mask_inf(np, i - 1), 0),
                       Qcur(il, ln_1(il, inpL[i])))
       IN Once(LAMBDA x : <<ffn_out(il, x)>>, attn_out(il, inpL[i], KQV))
            \o layer_columns(mk, mv, inpL, il, np, i + 1)

\* lines 467-620: layer il over the batch's columns inpL at n_past = np
graph_layer(mk, mv, inpL, il, np) ==
  Once(LAMBDA m : [k |-> m.k, v |-> m.v,
                   inpL |-> layer_columns(m.k, m.v, inpL, il, np, 1)],
       [k |-> Once(LAMBDA xs : cache_store(mk, il, np, xs, 1),
                   Kcur_columns(il, inpL)),
        v |-> Once(LAMBDA xs : cache_store(mv, il, np, xs, 1),
                   Vcur_columns(il, inpL))])

\* lines 467-620: the layers from il on, in order
RECURSIVE graph_layers(_, _, _, _, _)
graph_layers(mk, mv, inpL, il, np) ==
  IF il < hparams.n_layers
  THEN Once(LAMBDA r : graph_layers(r.k, r.v, r.inpL, il + 1, np),
            graph_layer(mk, mv, inpL, il, np))
  ELSE [k |-> mk, v |-> mv, inpL |-> inpL]

\* line 465: the columns of the batch's tokens
RECURSIVE get_rows(_)
get_rows(tokens) ==
  IF tokens = <<>> THEN <<>>
  ELSE <<get_rows_wte(Head(tokens))>> \o get_rows(Tail(tokens))

\* lines 462-649: the cache after the pass over tokens at n_past = np
graph_memory(mk, mv, np, tokens) ==
  Once(LAMBDA inpL : graph_layers(mk, mv, inpL, 0, np), get_rows(tokens))

\* lines 462-668 with logits_all = false: the logits of the last token
graph_logits(mk, mv, np, tokens) ==
  lm_head(graph_memory(mk, mv, np, tokens).inpL[Len(tokens)])

\* lines 407-679: one call of mpt_eval with the caller's estimate e, for N
\* the batch tokens at n_past = np.  realloc_ok: whether realloc succeeds;
\* used: what ggml_used_mem reports; lgs: the values the graph may leave in
\* embd_w.
mpt_eval(e, np, tokens, realloc_ok, used, lgs) ==
  LET N == Len(tokens)
      need == NeedsRealloc(e, N, buf_size)
      size1 == IF need THEN buf_size_new(e, N) ELSE buf_size
  IN /\ buf_size' = size1
     /\ UNCHANGED <<scr0_size, scr1_size>>
     /\ IF need /\ ~realloc_ok
        THEN /\ buf' = "null"
             /\ eval_ret' = "fail"
             /\ mem_per_token' = e
             /\ UNCHANGED <<evals, logits, cacheVars>>
        ELSE /\ buf' = IF need THEN "valid" ELSE buf
             /\ eval_ret' = "ok"
             /\ \E g \in {graph_memory(memory_k, memory_v, np, tokens)} :
                  memory_k' = g.k /\ memory_v' = g.v
             /\ evals' = Append(evals, [n_past |-> np, N |-> N, e |-> e,
                                        tokens |-> tokens,
                                        buf_size |-> size1,
                                        scr0_size |-> scr0_size,
                                        scr1_size |-> scr1_size])
             /\ mem_per_token' = IF e = 0 THEN used \div N ELSE e
             /\ logits' \in lgs

(***************************************************************************)
(* The Mpt object.                                                         *)
(***************************************************************************)
SeedValues == {-1, 1}
\* time(NULL)
TimeValues == {1}
\* params.n_batch: none, one, two, and one more than the warm-up batch
BatchValues == {0, 1, 2, WarmupN + 1}
\* params.n_ctx, and the max_seq_len of the weight file
CtxValues == {2, MaxCtx}
MaxSeqLenValues == {MaxCtx - 1, MaxCtx}

ParamSpace == [seed : SeedValues,
               n_predict : (-1)..MaxPredict,
               n_batch : BatchValues,
               n_ctx : CtxValues,
               repeat_last_n : {-1, 1}]

\* the prompts: every short one, and constant ones longer than the warm-up batch
LongPrompts == {[i \in 1..(WarmupN + 1) |-> t] : t \in Tokens}
Prompts == SeqsUpTo(Tokens, MaxPrompt) \cup LongPrompts

\* the member params before the constructor assigns it: only its seed is read
DefaultParams(s0) == [seed |-> s0, n_predict |-> 0, n_batch |-> 0, n_ctx |-> 1,
                      repeat_last_n |-> 0]

\* line 873: rng = std::mt19937(params.seed), before line 875 assigns params
ctor_rng_seed(_params) == params.seed

\* lines 872-941: Mpt::Mpt(_params).  t: what time(NULL) returns; ok: what
\* mpt_model_load returns; max_seq_len: the file's hparams.max_seq_len;
\* words: the file's vocabulary block, read by every load that succeeds and
\* by a failing one that got as far.
Mpt_ctor(_params, t, ok, max_seq_len, words) ==
  /\ pc = "new"
  /\ \E vocab_read \in (IF ok THEN {TRUE} ELSE BOOLEAN) :
       vocab' = IF vocab_read THEN load_vocab(vocab, NVocab, words) ELSE vocab
  /\ rng' = [seed |-> ctor_rng_seed(_params), draws |-> 0]
  /\ LET p1 == [_params EXCEPT
                  !.seed = IF @ < 0 THEN t ELSE @,
                  !.n_predict = IF @ < 0 THEN 0 ELSE @]
     IN params' = IF ok
                  THEN [p1 EXCEPT !.repeat_last_n = IF @ = -1 THEN p1.n_ctx ELSE @]
                  ELSE p1
  /\ hparams' = [n_ctx |-> Min(max_seq_len, _params.n_ctx),
                 n_layers |-> NLayers, n_vocab |-> NVocab]
  /\ load_ok' = ok
  /\ ctor_ret' = "returned"
  /\ pc' = IF ok THEN "idle" ELSE "unloaded"
  /\ memory_k' = IF ok THEN kv_memory(NLayers, Min(max_seq_len, _params.n_ctx))
                 ELSE memory_k
  /\ memory_v' = IF ok THEN kv_memory(NLayers, Min(max_seq_len, _params.n_ctx))
                 ELSE memory_v
  /\ UNCHANGED <<ptmVars, evalVars>>
  /\ UNCHANGED <<loadVars, lpVars>>

(***************************************************************************)
(* Mpt::ProcessTokenizedMessage.                                           *)
(***************************************************************************)
\* the logits a forward pass may leave in embd_w, for weights left open
LogitValues == Tokens

\* std::mt19937: the next draw of a generator seeded with r.seed after r.draws
rng_draw(r) == (r.seed + r.draws) % NVocab

\* gpt_sample_top_k_top_p_repeat: a token id, a function of the logits and of
\* the generator's state
gpt_sample_top_k_top_p_repeat(lg, r) == (lg + rng_draw(r)) % NVocab

\* lines 1033-1034 and 1048-1049: erase(begin()) then push_back(id)
window_push_noerase(w, id) == Append(w, id)
window_push(w, id) == Append(Tail(w), id)

\* lines 978-979: std::vector<int32_t> last_n_tokens(params.n_ctx), zero-filled
window_init_len == params.n_ctx

\* lines 1045-1055 with the batch test made for more than n_batch tokens
RECURSIVE consume_prompt_past_batch(_)
consume_prompt_past_batch(st) ==
  IF Len(embd_inp) > st.n_consumed
  THEN LET tok == embd_inp[st.n_consumed + 1]
           st1 == [embd |-> Append(st.embd, tok),
                   last |-> Append(Tail(st.last), tok),
                   n_consumed |-> st.n_consumed + 1]
       IN IF Len(st1.embd) > params.n_batch THEN st1
          ELSE consume_prompt_past_batch(st1)
  ELSE st

\* lines 1045-1055 with the batch test made before the push instead of after
RECURSIVE consume_prompt_batch_first(_)
consume_prompt_batch_first(st) ==
  IF Len(embd_inp) > st.n_consumed /\ Len(st.embd) < params.n_batch
  THEN LET tok == embd_inp[st.n_consumed + 1]
       IN consume_prompt_batch_first(
            [embd |-> Append(st.embd, tok),
             last |-> Append(Tail(st.last), tok),
             n_consumed |-> st.n_consumed + 1])
  ELSE st

\* lines 1045-1055: move prompt tokens into embd until the prompt is used up
\* or embd holds n_batch tokens (tested after each push)
RECURSIVE consume_prompt(_)
consume_prompt(st) ==
  IF Len(embd_inp) > st.n_consumed
  THEN LET tok == embd_inp[st.n_consumed + 1]
           st1 == [embd |-> Append(st.embd, tok),
                   last |-> window_push(st.last, tok),
                   n_consumed |-> st.n_consumed + 1]
       IN Once(LAMBDA s1 : IF Len(s1.embd) >= params.n_batch THEN s1
                           ELSE consume_prompt(s1), st1)
  ELSE st

\* lines 1066-1068: the end-of-text test on the pending batch
is_end_of_text(e) == e[Len(e)] = 0

\* line 1066: what embd.back() == 0 may give; back() of an empty vector is
\* undefined, and the test can then go either way
embd_back_is_zero(e) == IF Len(e) = 0 THEN BOOLEAN ELSE {is_end_of_text(e)}

\* lines 973-992: the locals, and the warm-up pass over {0, 1, 2, 3} whose
\* return value is not looked at
ProcessTokenizedMessage_Begin(prompt, used, lgs) ==
  /\ pc = "idle"
  /\ embd_inp' = prompt
  /\ last_n_tokens' = Zeros(window_init_len)
  /\ embd' = <<>>
  /\ mpt_eval(0, 0, WarmupTokens, TRUE, used, lgs)
  /\ n_past' = 0
  /\ n_consumed' = 0
  /\ n_sampled' = 0
  /\ result' = <<>>
  /\ pc' = "loop"
  /\ UNCHANGED <<params, hparams, rng, ctor_ret, load_ok, vocab, sink, placed,
                 ret, exit_by, last_step>>
  /\ UNCHANGED <<loadVars, lpVars>>

\* line 1010 with the position advanced by one whatever the batch held
advance_n_past_by_one(np, e) == np + 1
\* line 1010: n_past += embd.size() (nothing to add for an empty embd)
advance_n_past(np, e) == np + Len(e)

\* lines 995-1012: the forward pass over a non-empty pending batch
loop_eval(realloc_ok, used, lgs) ==
  IF Len(embd) > 0
  THEN mpt_eval(mem_per_token, n_past, embd, realloc_ok, used, lgs)
  ELSE UNCHANGED <<evalVars, logits, cacheVars>>

\* lines 1058-1069 with only the last id of the pending batch displayed
loop_tail_last_only(e) ==
  /\ sink' = Append(sink, id_to_token(e[Len(e)]))
  /\ result' = result \o id_to_token(e[Len(e)])
  /\ IF is_end_of_text(e)
     THEN pc' = "done" /\ ret' = "result" /\ exit_by' = "eos"
     ELSE pc' = "loop" /\ UNCHANGED <<ret, exit_by>>

\* lines 1058-1069 and 1071-1093: emit the pending batch, then either leave
\* the loop on end-of-text (and return result) or go round again
loop_tail(e) ==
  /\ sink' = sink \o batch_texts(e)
  /\ result' = result \o concat(batch_texts(e))
  /\ \E eos \in embd_back_is_zero(e) :
       IF eos
       THEN pc' = "done" /\ ret' = "result" /\ exit_by' = "eos"
       ELSE pc' = "loop" /\ UNCHANGED <<ret, exit_by>>

\* lines 993-1006: an iteration whose forward pass fails, which it does only
\* when realloc does
Loop_EvalFails(used, lgs) ==
  /\ pc = "loop"
  /\ n_sampled < params.n_predict
  /\ loop_eval(FALSE, used, lgs)
  /\ Len(embd) > 0 /\ eval_ret' = "fail"
  /\ pc' = "done"
  /\ ret' = "mpt_eval error"
  /\ exit_by' = "eval"
  /\ UNCHANGED <<params, hparams, rng, ctor_ret, load_ok, vocab, embd_inp,
                 embd, last_n_tokens, n_past, n_consumed, n_sampled, result,
                 sink, placed, last_step>>
  /\ UNCHANGED <<loadVars, lpVars>>

\* lines 993-1042, 1058-1069: an iteration that samples a token, its forward
\* pass having got the buffer it asked for
Loop_Sample(used, lgs) ==
  /\ pc = "loop"
  /\ n_sampled < params.n_predict
  /\ Len(embd_inp) <= n_consumed
  /\ loop_eval(TRUE, used, lgs)
  /\ ~(Len(embd) > 0 /\ eval_ret' = "fail")
  /\ n_past' = advance_n_past(n_past, embd)
  /\ LET id == gpt_sample_top_k_top_p_repeat(logits', rng)
     IN /\ rng' = [rng EXCEPT !.draws = @ + 1]
        /\ last_n_tokens' = window_push(last_n_tokens, id)
        /\ embd' = <<id>>
        /\ placed' = Append(placed, id)
        /\ n_sampled' = n_sampled + 1
        /\ loop_tail(<<id>>)
  /\ last_step' = "sample"
  /\ UNCHANGED <<params, hparams, ctor_ret, load_ok, vocab, embd_inp,
                 n_consumed>>
  /\ UNCHANGED <<loadVars, lpVars>>

\* lines 993-1013, 1043-1069: an iteration that consumes prompt tokens, its
\* forward pass having got the buffer it asked for
Loop_Prompt(used, lgs) ==
  /\ pc = "loop"
  /\ n_sampled < params.n_predict
  /\ ~(Len(embd_inp) <= n_consumed)
  /\ loop_eval(TRUE, used, lgs)
  /\ ~(Len(embd) > 0 /\ eval_ret' = "fail")
  /\ n_past' = advance_n_past(n_past, embd)
  /\ LET st == consume_prompt([embd |-> <<>>, last |-> last_n_tokens,
                               n_consumed |-> n_consumed])
     IN /\ embd' = st.embd
        /\ placed' = placed \o st.embd
        /\ last_n_tokens' = st.last
        /\ n_consumed' = st.n_consumed
        /\ loop_tail(st.embd)
  /\ last_step' = "prompt"
  /\ UNCHANGED <<params, hparams, rng, ctor_ret, load_ok, vocab, embd_inp,
                 n_sampled>>
  /\ UNCHANGED <<loadVars, lpVars>>

\* lines 993, 1071-1093: the loop condition fails; report and return result
Loop_Exit ==
  /\ pc = "loop"
  /\ ~(n_sampled < params.n_predict)
  /\ pc' = "done"
  /\ ret' = "result"
  /\ exit_by' = "limit"
  /\ UNCHANGED <<params, hparams, rng, ctor_ret, load_ok, vocab, embd_inp,
                 embd, logits, last_n_tokens, n_past, n_consumed, n_sampled,
                 result, sink, placed, last_step, evalVars, cacheVars>>
  /\ UNCHANGED <<loadVars, lpVars>>

InitDecode ==
  /\ pc = "new"
  /\ params \in {DefaultParams(s0) : s0 \in SeedValues}
  /\ hparams = [n_ctx |-> 0, n_layers |-> 0, n_vocab |-> 0]
  /\ rng = [seed |-> 0, draws |-> 0]
  /\ ctor_ret = "none"
  /\ load_ok = FALSE
  /\ vocab = EmptyVocab
  /\ embd_inp = <<>> /\ embd = <<>> /\ logits = 0 /\ last_n_tokens = <<>>
  /\ n_past = 0 /\ n_consumed = 0 /\ n_sampled = 0
  /\ result = <<>> /\ sink = <<>> /\ ret = "none" /\ exit_by = "none"
  /\ last_step = "none" /\ placed = <<>>
  /\ mem_per_token = 0
  /\ buf_size = DefaultBufSize /\ buf = "valid"
  /\ scr0_size = DefaultBufSize /\ scr1_size = DefaultBufSize
  /\ evals = <<>> /\ eval_ret = "none"
  /\ memory_k = <<>> /\ memory_v = <<>>
  /\ lpc = "off" /\ fin = "good" /\ model_tensors = <<>> /\ model_ctx = "valid"
  /\ copies = <<>> /\ n_read = 0 /\ last_rec = NoRecord
  /\ load_ret = "none" /\ fail_at = "none"
  /\ lp_i = 0 /\ lp_j = 0

NextDecode ==
  \/ \E p \in ParamSpace, t \in TimeValues, ok \in BOOLEAN,
        msl \in MaxSeqLenValues, words \in MptVocabFiles :
       Mpt_ctor(p, t, ok, msl, words)
  \/ \E prompt \in Prompts, used \in WarmupUsedMem :
       ProcessTokenizedMessage_Begin(prompt, used, LogitValues)
  \/ \E used \in WarmupUsedMem :
       \/ Loop_EvalFails(used, LogitValues)
       \/ Loop_Sample(used, LogitValues)
       \/ Loop_Prompt(used, LogitValues)
  \/ Loop_Exit

SpecDecode == InitDecode /\ [][NextDecode]_vars

(***************************************************************************)
(* Claims about the decode loop and the Mpt object, under SpecDecode.      *)
(***************************************************************************)
InLoopOrDone == pc \in {"loop", "done"}

\* C1: the decode loop is left only because n_sampled reached n_predict or
\* because the id the sampler just produced is 0 (or a forward pass failed);
\* an iteration that only moved prompt tokens never ends it, and an iteration
\* that sampled id 0 always does.
C1_LoopEndsOnlyOnLimitOrSampledEos ==
  /\ (pc = "done" /\ exit_by # "eval")
       => \/ n_sampled >= params.n_predict
          \/ last_step = "sample" /\ is_end_of_text(embd)
  /\ (pc = "loop" /\ last_step = "sample") => ~is_end_of_text(embd)

\* C2: every forward pass ProcessTokenizedMessage issues has
\* n_past + N <= hparams.n_ctx, so for every layer the cells written and the
\* cells read lie in that layer's own region of the cache.
C2_EveryPassFitsTheContext ==
  \A i \in 1..Len(evals) :
    /\ evals[i].n_past + evals[i].N <= hparams.n_ctx
    /\ \A il \in 0..(hparams.n_layers - 1) :
         /\ CacheWriteCells(il, evals[i].n_past, evals[i].N) \subseteq LayerRegion(il)
         /\ CacheReadCells(il, evals[i].n_past, evals[i].N) \subseteq LayerRegion(il)

\* C6: a failure of mpt_model_load or of mpt_eval is the failure result of the
\* Mpt operation that made the call: the constructor does not end as a
\* successful construction when the load failed, and ProcessTokenizedMessage
\* returns its error when a pass failed.
C6_FailuresAreSurfaced ==
  /\ (ctor_ret # "none" /\ ~load_ok) => ctor_ret = "failed"
  /\ (pc = "done" /\ eval_ret = "fail") => ret = "mpt_eval error"

\* C9: the generator handed to the sampler is seeded with the seed of the
\* configuration the constructor was given.
C9_RngSeededWithConfiguredSeed ==
  (InLoopOrDone /\ n_sampled > 0) => rng.seed = params.seed

C11_SinkReceivesEveryPlacedTokenOnce ==
  /\ InLoopOrDone =>
       /\ Len(sink) = Len(placed)
       /\ \A i \in 1..Len(placed) : sink[i] = id_to_token(placed[i])
       /\ Len(placed) = n_consumed + n_sampled
       /\ SubSeq(placed, 1, n_consumed) = SubSeq(embd_inp, 1, n_consumed)
  /\ (pc = "done" /\ ret = "result") => result = concat(sink)

\* C11 witness: a call returned its result after a batch of two prompt tokens
\* and a sampled token were displayed.
C11_Witness ==
  /\ pc = "done" /\ ret = "result"
  /\ n_consumed >= 2 /\ n_sampled >= 1
  /\ params.n_batch >= 2
  /\ placed[1] # placed[2]
  /\ result # <<>>

\* C14: an iteration of the decode loop that finds unconsumed prompt tokens
\* moves at least one and, for n_batch >= 1, at most n_batch of them, in
\* prompt order, into the pending batch and samples nothing; an iteration
\* samples only when the whole prompt is consumed, and then exactly one
\* token; once a token has been sampled no prompt token is consumed.
C14_PromptBeforeSampling ==
  [][(pc = "loop" /\ placed' # placed) =>
       /\ IF Len(embd_inp) > n_consumed
          THEN /\ n_consumed' > n_consumed
               /\ n_consumed' <= Len(embd_inp)
               /\ params.n_batch >= 1 => n_consumed' - n_consumed <= params.n_batch
               /\ embd' = SubSeq(embd_inp, n_consumed + 1, n_consumed')
               /\ n_sampled' = n_sampled
          ELSE /\ n_sampled' = n_sampled + 1
               /\ Len(embd') = 1
               /\ n_consumed' = n_consumed
       /\ n_sampled > 0 => n_consumed' = n_consumed]_vars

\* C14 witness: a prompt of five tokens was consumed two at a time, and two
\* tokens were sampled after it.
C14_Witness ==
  /\ InLoopOrDone
  /\ params.n_batch = 2
  /\ Len(embd_inp) = 5 /\ n_consumed = 5
  /\ n_sampled = 2
  /\ Len(evals) = 5

\* C15: between the steps of the decode loop, n_past plus the size of the
\* pending batch equals n_consumed + n_sampled; so every mpt_eval call of
\* the loop (the calls after the warm-up pass) is made with n_past equal to
\* the number of tokens the loop's earlier calls evaluated, and successive
\* passes cover contiguous, non-overlapping positions from position 0 on.
C15_NPastCountsEvaluatedTokens ==
  InLoopOrDone =>
    /\ n_past + Len(embd) = n_consumed + n_sampled
    /\ Len(evals) >= 2 => evals[2].n_past = 0
    /\ \A i \in 2..(Len(evals) - 1) :
         evals[i + 1].n_past = evals[i].n_past + evals[i].N
    /\ \A i \in 2..Len(evals) :
         evals[i].tokens = SubSeq(placed, evals[i].n_past + 1,
                                  evals[i].n_past + evals[i].N)
    /\ eval_ret = "ok" /\ Len(evals) >= 2 =>
         n_past = evals[Len(evals)].n_past + evals[Len(evals)].N

\* C15 witness: the loop made passes over batches of two, two and one prompt
\* tokens and then over a sampled token.
C15_Witness ==
  /\ pc = "done"
  /\ Len(evals) = 5
  /\ evals[2].N = 2 /\ evals[3].N = 2 /\ evals[4].N = 1 /\ evals[5].N = 1
  /\ n_past = 6 /\ n_sampled = 2

(***************************************************************************)
(* Termination of the decode loop.  ProcessTokenizedMessage runs on the     *)
(* caller's thread from its call to its return, so once the loop is        *)
(* entered a next step of it is taken for as long as one is possible.      *)
(***************************************************************************)
\* params.n_batch for the loop's termination: negative, none, one, two, and
\* one more than the warm-up batch
TerminateBatchValues == {-1, 0, 1, 2, WarmupN + 1}

TerminateParamSpace == [seed : {1},
                        n_predict : 0..MaxPredict,
                        n_batch : TerminateBatchValues,
                        n_ctx : {MaxCtx},
                        repeat_last_n : {1}]

\* lines 993-1069: one trip round the loop, or the failing loop condition
LoopStep ==
  \/ \E used \in WarmupUsedMem :
       \/ Loop_EvalFails(used, LogitValues)
       \/ Loop_Sample(used, LogitValues)
       \/ Loop_Prompt(used, LogitValues)
  \/ Loop_Exit

NextTerminate ==
  \/ \E p \in TerminateParamSpace, t \in TimeValues :
       Mpt_ctor(p, t, TRUE, MaxCtx, PlainVocabFile)
  \/ \E prompt \in Prompts, used \in WarmupUsedMem :
       ProcessTokenizedMessage_Begin(prompt, used, LogitValues)
  \/ LoopStep

SpecTerminate == InitDecode /\ [][NextTerminate]_vars /\ WF_vars(LoopStep)

\* an iteration of the loop that got past its forward pass
IterationCompletes ==
  /\ pc = "loop"
  /\ n_sampled < params.n_predict
  /\ exit_by' # "eval"

\* prompt tokens not yet consumed plus tokens not yet sampled
LoopVariant == (Len(embd_inp) - n_consumed) + (params.n_predict - n_sampled)

\* C18: for every finite prompt, every n_batch (n_batch <= 0 included) and
\* every n_predict >= 0, the decode loop of ProcessTokenizedMessage
\* terminates: every iteration either consumes at least one prompt token or
\* samples exactly one token, the pending batch is non-empty when the
\* end-of-text test reads its last element, and n_sampled never exceeds
\* n_predict.
C18_DecodeLoopTerminates ==
  /\ [](InLoopOrDone => /\ n_sampled <= params.n_predict
                        /\ n_consumed <= Len(embd_inp))
  /\ [][IterationCompletes =>
          /\ \/ n_consumed' > n_consumed /\ n_sampled' = n_sampled
             \/ n_sampled' = n_sampled + 1 /\ n_consumed' = n_consumed
          /\ Len(embd') > 0
          /\ LoopVariant' < LoopVariant]_vars
  /\ (pc = "loop") ~> (pc = "done")

\* C18 witness: with a negative n_batch a prompt of two or more tokens was
\* consumed one token an iteration, n_predict >= 1 tokens were sampled, and
\* the loop was left because n_sampled reached n_predict.
C18_Witness ==
  /\ pc = "done" /\ exit_by = "limit"
  /\ params.n_batch < 0
  /\ Len(embd_inp) >= 2 /\ n_consumed = Len(embd_inp)
  /\ params.n_predict >= 1 /\ n_sampled = params.n_predict
  /\ Len(evals) = 1 + Len(embd_inp) + n_sampled - 1

(***************************************************************************)
(* mpt_eval on its own: a caller that keeps its estimate mem_per_token and *)
(* its n_past across calls, as ProcessTokenizedMessage and LogPerplexity   *)
(* do, and a new caller that starts again from mem_per_token = 0 while the *)
(* static buffers stay as the earlier calls left them.                     *)
(***************************************************************************)
\* lines 998-1012 (and 761-762): a call, and on success n_past += N
Eval_Call(tokens, realloc_ok, used, lgs) ==
  /\ Len(evals) < MaxCalls
  /\ mpt_eval(mem_per_token, n_past, tokens, realloc_ok, used, lgs)
  /\ n_past' = IF eval_ret' = "ok" THEN n_past + Len(tokens) ELSE n_past
  /\ UNCHANGED <<mptVars, embd_inp, embd, last_n_tokens, n_consumed,
                 n_sampled, result, sink, placed, ret, exit_by, last_step>>
  /\ UNCHANGED <<loadVars, lpVars>>

\* lines 984-989 (and 715-718): size_t mem_per_token = 0; int n_past = 0
Eval_NewCaller ==
  /\ eval_ret # "none"
  /\ mem_per_token' = 0
  /\ n_past' = 0
  /\ eval_ret' = "none"
  /\ UNCHANGED <<mptVars, embd_inp, embd, logits, last_n_tokens, n_consumed,
                 n_sampled, result, sink, placed, ret, exit_by, last_step,
                 buf_size, buf, scr0_size, scr1_size, evals, cacheVars>>
  /\ UNCHANGED <<loadVars, lpVars>>

InitEval ==
  /\ pc = "idle"
  /\ params = [seed |-> 1, n_predict |-> 0, n_batch |-> MaxN, n_ctx |-> MaxCtx,
               repeat_last_n |-> MaxCtx]
  /\ hparams = [n_ctx |-> MaxCtx, n_layers |-> NLayers, n_vocab |-> NVocab]
  /\ rng = [seed |-> 1, draws |-> 0]
  /\ ctor_ret = "returned"
  /\ load_ok = TRUE
  /\ vocab = load_vocab(EmptyVocab, NVocab, PlainVocabFile)
  /\ embd_inp = <<>> /\ embd = <<>> /\ logits = 0 /\ last_n_tokens = <<>>
  /\ n_past = 0 /\ n_consumed = 0 /\ n_sampled = 0
  /\ result = <<>> /\ sink = <<>> /\ ret = "none" /\ exit_by = "none"
  /\ last_step = "none" /\ placed = <<>>
  /\ mem_per_token = 0
  /\ buf_size = DefaultBufSize /\ buf = "valid"
  /\ scr0_size = DefaultBufSize /\ scr1_size = DefaultBufSize
  /\ evals = <<>> /\ eval_ret = "none"
  /\ memory_k = kv_memory(NLayers, MaxCtx)
  /\ memory_v = kv_memory(NLayers, MaxCtx)
  /\ lpc = "off" /\ fin = "good" /\ model_tensors = <<>> /\ model_ctx = "valid"
  /\ copies = <<>> /\ n_read = 0 /\ last_rec = NoRecord
  /\ load_ret = "none" /\ fail_at = "none"
  /\ lp_i = 0 /\ lp_j = 0

\* the batch of N tokens the stand-alone driver hands to mpt_eval
EvalBatch(N) == [i \in 1..N |-> 1]

NextEval ==
  \/ \E N \in 1..MaxN, realloc_ok \in BOOLEAN, used \in UsedMemValues,
        lg \in LogitValues :
       Eval_Call(EvalBatch(N), realloc_ok, used, {lg})
  \/ Eval_NewCaller

SpecEval == InitEval /\ [][NextEval]_vars

\* C7: a call of mpt_eval that fails because the buffer cannot be reallocated
\* leaves the buffer pointer, its recorded size and the caller's
\* bytes-per-token estimate exactly as they were before the call.
C7_FailedEvalLeavesStateUnchanged ==
  [][eval_ret' = "fail" =>
       /\ buf' = buf
       /\ buf_size' = buf_size
       /\ mem_per_token' = mem_per_token
       /\ evals' = evals]_vars

\* C8: every pass made with a known estimate e > 0 runs with the main buffer
\* and both scratch regions no smaller than e * N, a buffer that was too small
\* having been reallocated to 1.1 * e * N, and no buffer ever shrinks.
C8_EveryArenaBufferSuffices ==
  \A i \in 1..Len(evals) :
    LET c == evals[i]
    IN /\ c.e > 0 =>
            /\ c.buf_size >= c.e * c.N
            /\ c.scr0_size >= c.e * c.N
            /\ c.scr1_size >= c.e * c.N
       /\ i > 1 =>
            /\ c.buf_size >= evals[i - 1].buf_size
            /\ c.scr0_size >= evals[i - 1].scr0_size
            /\ c.scr1_size >= evals[i - 1].scr1_size
            /\ (c.e > 0 /\ evals[i - 1].buf_size < c.e * c.N)
                 => c.buf_size = buf_size_new(c.e, c.N)

(***************************************************************************)
(* Mpt::LogPerplexity.  The prompt is taken as tokenized; the perplexity   *)
(* figures the function writes to the log are not part of the model.       *)
(***************************************************************************)
\* the tokenized messages: the prompts of ProcessTokenizedMessage
PerplexityPrompts == Prompts

\* line 722: n_chunk = embd_inp.size() / params.n_ctx
n_chunk == Len(embd_inp) \div params.n_ctx

\* line 740: num_batches = (n_ctx + n_batch - 1) / n_batch; a division by
\* n_batch = 0 that does not trap leaves the quotient 0
num_batches ==
  IF params.n_batch = 0 THEN 0
  ELSE (params.n_ctx + params.n_batch - 1) \div params.n_batch

\* lines 737-738, 748-749: the bounds of chunk i and of its batch j
lp_start(i) == i * params.n_ctx
lp_end(i) == lp_start(i) + params.n_ctx
batch_start(i, j) == lp_start(i) + j * params.n_batch
batch_size(i, j) == Min(lp_end(i) - batch_start(i, j), params.n_batch)

\* line 761: the n_past handed to mpt_eval for batch j
lp_n_past(i, j) == j * batch_size(i, j)

\* lines 700-734: the warm-up pass, whose return value is not looked at
LogPerplexity_Begin(prompt, used) ==
  /\ pc = "idle"
  /\ embd_inp' = prompt
  /\ mpt_eval(0, 0, WarmupTokens, TRUE, used, LogitValues)
  /\ lp_i' = 0 /\ lp_j' = 0
  /\ pc' = "chunks"
  /\ UNCHANGED <<params, hparams, rng, ctor_ret, load_ok, vocab, embd,
                 last_n_tokens, n_past, n_consumed, n_sampled, result, sink,
                 placed, ret, exit_by, last_step>>
  /\ UNCHANGED loadVars

\* line 740 with n_batch = 0: the division traps
LogPerplexity_DivideByZero ==
  /\ pc = "chunks"
  /\ lp_i < n_chunk
  /\ params.n_batch = 0
  /\ pc' = "crashed"
  /\ UNCHANGED <<params, hparams, rng, ctor_ret, load_ok, vocab, ptmVars,
                 evalVars, loadVars, cacheVars, lpVars>>

\* lines 746-775: batch j of chunk i; a failed pass ends LogPerplexity
LogPerplexity_Batch(realloc_ok, used) ==
  /\ pc = "chunks"
  /\ lp_i < n_chunk
  /\ lp_j < num_batches
  /\ LET batch == SubSeq(embd_inp, batch_start(lp_i, lp_j) + 1,
                         batch_start(lp_i, lp_j) + batch_size(lp_i, lp_j))
     IN /\ embd' = batch
        /\ mpt_eval(mem_per_token, lp_n_past(lp_i, lp_j), batch, realloc_ok,
                    used, LogitValues)
  /\ IF eval_ret' = "fail"
     THEN pc' = "done" /\ UNCHANGED lpVars
     ELSE pc' = pc /\ lp_j' = lp_j + 1 /\ lp_i' = lp_i
  /\ UNCHANGED <<params, hparams, rng, ctor_ret, load_ok, vocab, embd_inp,
                 last_n_tokens, n_past, n_consumed, n_sampled, result, sink,
                 placed, ret, exit_by, last_step>>
  /\ UNCHANGED loadVars

\* lines 746, 777-848: the batches of chunk i are done; on to the next chunk
LogPerplexity_ChunkEnd ==
  /\ pc = "chunks"
  /\ lp_i < n_chunk
  /\ ~(lp_j < num_batches)
  /\ lp_i' = lp_i + 1
  /\ lp_j' = 0
  /\ UNCHANGED <<mptVars, ptmVars, evalVars, loadVars, cacheVars>>

\* lines 735, 850-864: no chunk left; report and return
LogPerplexity_Return ==
  /\ pc = "chunks"
  /\ ~(lp_i < n_chunk)
  /\ pc' = "done"
  /\ UNCHANGED <<params, hparams, rng, ctor_ret, load_ok, vocab, ptmVars,
                 evalVars, loadVars, cacheVars, lpVars>>

NextPerplexity ==
  \/ \E p \in ParamSpace, t \in TimeValues, ok \in BOOLEAN,
        msl \in MaxSeqLenValues :
       Mpt_ctor(p, t, ok, msl, PlainVocabFile)
  \/ \E prompt \in PerplexityPrompts, used \in WarmupUsedMem :
       LogPerplexity_Begin(prompt, used)
  \/ LogPerplexity_DivideByZero
  \/ \E realloc_ok \in BOOLEAN, used \in WarmupUsedMem :
       LogPerplexity_Batch(realloc_ok, used)
  \/ LogPerplexity_ChunkEnd
  \/ LogPerplexity_Return

SpecPerplexity == InitDecode /\ [][NextPerplexity]_vars

\* the batches of the current chunk that were evaluated: the last lp_j calls
ChunkEvals == SubSeq(evals, Len(evals) - lp_j + 1, Len(evals))

\* C16: within a chunk of n_ctx tokens, batch j is evaluated with n_past
\* equal to the number of the chunk's tokens that batches 0..j-1 evaluated,
\* so the batches cover the contiguous, non-overlapping positions
\* 0..n_ctx-1, for every n_ctx and n_batch.
C16_ChunkBatchesAreContiguous ==
  (pc = "chunks" /\ lp_j >= 1) =>
    /\ ChunkEvals[1].n_past = 0
    /\ \A b \in 1..(lp_j - 1) :
         ChunkEvals[b + 1].n_past = ChunkEvals[b].n_past + ChunkEvals[b].N
    /\ lp_j = num_batches =>
         ChunkEvals[lp_j].n_past + ChunkEvals[lp_j].N = params.n_ctx

(***************************************************************************)
(* mpt_eval and the key/value cache: a caller that hands mpt_eval batches  *)
(* of its own choosing at its running n_past, the logits being those the   *)
(* graph computes.                                                         *)
(***************************************************************************)
\* the batches of the cache driver
CacheBatches == {<<1>>, <<2>>, <<1, 2>>, <<2, 1>>, <<1, 1, 2>>}

\* lines 998-1012: a call whose buffer suffices, and n_past += N
Cache_Eval(tokens) ==
  Eval_Call(tokens, TRUE, WarmupN,
            {graph_logits(memory_k, memory_v, n_past, tokens)})

NextCache ==
  \/ \E tokens \in CacheBatches : Cache_Eval(tokens)
  \/ Eval_NewCaller

SpecCache == InitEval /\ [][NextCache]_vars

\* the tokens evaluated since the caller last started at n_past = 0
RECURSIVE LastRun(_)
LastRun(ev) ==
  IF ev = <<>> THEN <<>>
  ELSE LET r == ev[Len(ev)]
       IN IF r.n_past = 0 THEN r.tokens
          ELSE LastRun(SubSeq(ev, 1, Len(ev) - 1)) \o r.tokens

\* C12: after passes over successive batches at n_past = 0, N, N + M, ...
\* (N + M + ... <= n_ctx), the cache holds in the evaluated positions of
\* every layer what one pass over all the tokens at n_past = 0 writes into
\* a cache never written before, and the last-token logits are those of
\* that one pass.
C12_SplitPassesMatchOnePass ==
  (eval_ret = "ok" /\ n_past <= hparams.n_ctx) =>
    LET run == LastRun(evals)
        fresh == kv_memory(hparams.n_layers, hparams.n_ctx)
        one == graph_memory(fresh, fresh, 0, run)
    IN /\ Len(run) = n_past
       /\ \A il \in 0..(hparams.n_layers - 1), pos \in 0..(n_past - 1) :
            /\ memory_k[cache_cell(il, pos)] = one.k[cache_cell(il, pos)]
            /\ memory_v[cache_cell(il, pos)] = one.v[cache_cell(il, pos)]
            /\ memory_k[cache_cell(il, pos)] # Undef
            /\ memory_v[cache_cell(il, pos)] # Undef
       /\ logits = lm_head(one.inpL[Len(run)])
       /\ logits # Undef

\* C12 witness: after an earlier run left other keys and values in the
\* cache, a run of two passes, over two tokens at n_past = 0 and over a
\* further token at n_past = 2.
C12_Witness ==
  /\ Len(evals) = 3 /\ eval_ret = "ok"
  /\ evals[2].n_past = 0 /\ evals[2].N = 2
  /\ evals[3].n_past = 2 /\ evals[3].N >= 1
  /\ evals[1].tokens[1] # evals[2].tokens[1]
  /\ evals[2].tokens[1] # evals[2].tokens[2]

(***************************************************************************)
(* mpt_model_load.  The file is an input read front to back: its header    *)
(* fields are the inputs of Load_Header and each tensor record is the      *)
(* input of one Load_Record.  The vocabulary block (lines 100-125) is read *)
(* with the header; it has no return path of its own.                      *)
(***************************************************************************)
\* most tensor records a weight file holds
MaxRecords == 2

GGML_FILE_MAGIC == "ggml"
MagicValues == {"ggml", "ggjt"}
GGML_QNT_VERSION_FACTOR == 1000
\* hparams.ftype as stored: all-f32, mostly-f16 of quantization version 1, and
\* a code ggml_ftype_to_ggml_type does not know
FtypeValues == {0, 1001, 4}
\* hparams.n_layers, hparams.d_model and hparams.n_vocab of a weight file
LayerValues == {0, 1}
FileEmbd == 2
TypeValues == {"F32", "F16"}
\* how many bytes before the end of a record's payload the file ends
MissingValues == {0, 1}

ggml_ftype_to_ggml_type(ft) ==
  CASE ft = 0 -> "F32"
    [] ft = 1 -> "F16"
    [] OTHER -> "COUNT"
ggml_type_size(t) == IF t = "F32" THEN 4 ELSE 2
ggml_blck_size(t) == 1
ggml_nelements(t) == t.ne[1] * t.ne[2]
ggml_nbytes(t) == (ggml_nelements(t) * ggml_type_size(t.type)) \div ggml_blck_size(t.type)

HeaderValues == [d_model : {FileEmbd}, max_seq_len : MaxSeqLenValues,
                 n_layers : LayerValues, n_vocab : {NVocab},
                 ftype : FtypeValues]

\* lines 220-247: the names the tensors are registered under
Name_wte == <<"transformer.wte.weight">>
Name_norm_f == <<"transformer.norm_f.weight">>
BlockName(i, field) == <<"transformer.blocks.", i, field>>
UnknownName == <<"transformer.wpe.weight">>
BlockFields == {".norm_1.weight", ".attn.Wqkv.weight", ".attn.out_proj.weight",
                ".norm_2.weight", ".ffn.up_proj.weight",
                ".ffn.down_proj.weight"}

\* lines 226-233: the tensor of one field of a layer
layer_tensor(field, n_embd, wtype) ==
  CASE field = ".norm_1.weight" -> [ne |-> <<n_embd, 1>>, type |-> "F32"]
    [] field = ".attn.Wqkv.weight" -> [ne |-> <<n_embd, 3 * n_embd>>, type |-> wtype]
    [] field = ".attn.out_proj.weight" -> [ne |-> <<n_embd, n_embd>>, type |-> wtype]
    [] field = ".norm_2.weight" -> [ne |-> <<n_embd, 1>>, type |-> "F32"]
    [] field = ".ffn.up_proj.weight" -> [ne |-> <<n_embd, 4 * n_embd>>, type |-> wtype]
    [] field = ".ffn.down_proj.weight" -> [ne |-> <<4 * n_embd, n_embd>>, type |-> wtype]

\* lines 206-249: model.tensors after the weights' memory is prepared
registered_tensors(n_embd, n_layer, n_vocab, wtype) ==
  LET names == {Name_wte, Name_norm_f}
                 \cup {BlockName(i, f) : i \in 0..(n_layer - 1), f \in BlockFields}
  IN [nm \in names |->
        IF nm = Name_wte THEN [ne |-> <<n_embd, n_vocab>>, type |-> wtype]
        ELSE IF nm = Name_norm_f THEN [ne |-> <<n_embd, 1>>, type |-> "F32"]
        ELSE layer_tensor(nm[3], n_embd, wtype)]

\* lines 301-306: nelements and ne[2] = {1, 1} of a record with n_dims dims
rec_nelements(rec) == IF Len(rec.ne) = 1 THEN rec.ne[1] ELSE rec.ne[1] * rec.ne[2]
rec_ne(rec) == <<rec.ne[1], IF Len(rec.ne) = 1 THEN 1 ELSE rec.ne[2]>>

\* lines 311-375, with the shape test before the element-count test
check_record_shape_first(reg, rec) ==
  IF rec.name \notin DOMAIN reg THEN "unknown"
  ELSE LET tensor == reg[rec.name]
       IN IF tensor.ne # rec_ne(rec) THEN "shape"
          ELSE IF ggml_nelements(tensor) # rec_nelements(rec) THEN "nelements"
          ELSE IF (rec_nelements(rec) * ggml_type_size(rec.ttype))
                     \div ggml_blck_size(tensor.type) # ggml_nbytes(tensor)
               THEN "nbytes"
          ELSE "ok"

\* lines 311-375: the four tests made on a record, in the order made; the
\* first that fails, or "ok"
check_record(reg, rec) ==
  IF rec.name \notin DOMAIN reg THEN "unknown"
  ELSE LET tensor == reg[rec.name]
       IN IF ggml_nelements(tensor) # rec_nelements(rec) THEN "nelements"
          ELSE IF tensor.ne[1] # rec_ne(rec)[1] \/ tensor.ne[2] # rec_ne(rec)[2]
               THEN "shape"
          ELSE IF (rec_nelements(rec) * ggml_type_size(rec.ttype))
                     \div ggml_blck_size(tensor.type) # ggml_nbytes(tensor)
               THEN "nbytes"
          ELSE "ok"

\* the shapes a record may declare: each registered tensor's, its transpose
\* and its flattening
ShapeValues(reg) ==
  UNION {{reg[nm].ne, <<reg[nm].ne[2], reg[nm].ne[1]>>,
          <<reg[nm].ne[1] * reg[nm].ne[2]>>} : nm \in DOMAIN reg}
RecordValues(reg) ==
  [name : DOMAIN reg \cup {UnknownName}, ne : ShapeValues(reg), ttype : TypeValues]

\* lines 29-274: everything before the tensor records
Load_Header(openable, magic, hp, words, ctx_ok) ==
  /\ lpc = "start"
  /\ LET ftype == hp.ftype % GGML_QNT_VERSION_FACTOR
         wtype == ggml_ftype_to_ggml_type(ftype)
         failed == IF ~openable THEN "open"
                   ELSE IF magic # GGML_FILE_MAGIC THEN "magic"
                   ELSE IF wtype = "COUNT" THEN "ftype"
                   ELSE IF ~ctx_ok THEN "ctx"
                   ELSE "none"
     IN /\ hparams' = IF failed \in {"open", "magic"} THEN hparams
                      ELSE [d_model |-> hp.d_model, max_seq_len |-> hp.max_seq_len,
                            n_layers |-> hp.n_layers, n_vocab |-> hp.n_vocab,
                            ftype |-> ftype,
                            n_ctx |-> Min(hp.max_seq_len, hparams.n_ctx)]
        /\ vocab' = IF failed \in {"open", "magic"} THEN vocab
                    ELSE load_vocab(vocab, hp.n_vocab, words)
        /\ memory_k' = IF failed = "none"
                       THEN kv_memory(hp.n_layers, Min(hp.max_seq_len, hparams.n_ctx))
                       ELSE memory_k
        /\ memory_v' = IF failed = "none"
                       THEN kv_memory(hp.n_layers, Min(hp.max_seq_len, hparams.n_ctx))
                       ELSE memory_v
        /\ model_ctx' = IF failed = "none" THEN "valid" ELSE "null"
        /\ model_tensors' = IF failed = "none"
                            THEN registered_tensors(hp.d_model, hp.n_layers,
                                                    hp.n_vocab, wtype)
                            ELSE model_tensors
        /\ fail_at' = failed
        /\ load_ret' = IF failed = "none" THEN "none" ELSE "false"
        /\ lpc' = IF failed = "none" THEN "records" ELSE "returned"
  /\ UNCHANGED <<fin, copies, n_read, last_rec>>
  /\ UNCHANGED <<pc, params, rng, ctor_ret, load_ok, ptmVars, evalVars, lpVars>>

\* lines 288-383: one round of the loop over the tensor records, for a file
\* that holds a further record rec and ends `missing` bytes before the end
\* of that record's payload
Load_Record(rec, missing) ==
  /\ lpc = "records"
  /\ fin = "good"
  /\ n_read < MaxRecords
  /\ n_read' = n_read + 1
  /\ last_rec' = rec
  /\ LET chk == check_record(model_tensors, rec)
     IN IF chk # "ok"
        THEN /\ load_ret' = "false"
             /\ fail_at' = chk
             /\ lpc' = "returned"
             /\ UNCHANGED <<copies, fin>>
        ELSE LET nbytes == ggml_nbytes(model_tensors[rec.name])
             IN /\ copies' = Append(copies, [rec |-> rec, filled |-> nbytes - missing])
                /\ fin' = IF missing > 0 THEN "eof" ELSE "good"
                /\ UNCHANGED <<load_ret, fail_at, lpc>>
  /\ UNCHANGED <<model_tensors, model_ctx>>
  /\ UNCHANGED <<mptVars, ptmVars, evalVars, cacheVars, lpVars>>

\* lines 293-299, 385-396: the stream is at its end (the file holds no further
\* record, or an earlier read ran into the end): leave the loop, return true
Load_Eof ==
  /\ lpc = "records"
  /\ load_ret' = "true"
  /\ lpc' = "returned"
  /\ fin' = "eof"
  /\ UNCHANGED <<model_tensors, model_ctx, copies, n_read, last_rec, fail_at>>
  /\ UNCHANGED <<mptVars, ptmVars, evalVars, cacheVars, lpVars>>

InitLoad ==
  /\ pc = "new"
  /\ params \in {[DefaultParams(1) EXCEPT !.n_ctx = c] : c \in CtxValues}
  /\ hparams = [d_model |-> 0, max_seq_len |-> 0, n_layers |-> 0, n_vocab |-> 0,
                ftype |-> 0, n_ctx |-> params.n_ctx]
  /\ rng = [seed |-> 1, draws |-> 0]
  /\ ctor_ret = "none"
  /\ load_ok = FALSE
  /\ vocab = EmptyVocab
  /\ embd_inp = <<>> /\ embd = <<>> /\ logits = 0 /\ last_n_tokens = <<>>
  /\ n_past = 0 /\ n_consumed = 0 /\ n_sampled = 0
  /\ result = <<>> /\ sink = <<>> /\ ret = "none" /\ exit_by = "none"
  /\ last_step = "none" /\ placed = <<>>
  /\ mem_per_token = 0
  /\ buf_size = DefaultBufSize /\ buf = "valid"
  /\ scr0_size = DefaultBufSize /\ scr1_size = DefaultBufSize
  /\ evals = <<>> /\ eval_ret = "none"
  /\ memory_k = <<>> /\ memory_v = <<>>
  /\ lpc = "start" /\ fin = "good" /\ model_tensors = <<>> /\ model_ctx = "null"
  /\ copies = <<>> /\ n_read = 0 /\ last_rec = NoRecord
  /\ load_ret = "none" /\ fail_at = "none"
  /\ lp_i = 0 /\ lp_j = 0

NextLoad ==
  \/ \E openable \in BOOLEAN, magic \in MagicValues, hp \in HeaderValues,
        words \in VocabFiles, ctx_ok \in BOOLEAN :
       Load_Header(openable, magic, hp, words, ctx_ok)
  \/ \E rec \in RecordValues(model_tensors), missing \in MissingValues :
       Load_Record(rec, missing)
  \/ Load_Eof

SpecLoad == InitLoad /\ [][NextLoad]_vars

(***************************************************************************)
(* Claims about mpt_model_load, under SpecLoad.                            *)
(***************************************************************************)
RecordFailures == {"unknown", "nelements", "shape", "nbytes"}

\* the payload read number i stopped short of the tensor's ggml_nbytes
PartlyFilled(i) ==
  copies[i].filled < ggml_nbytes(model_tensors[copies[i].rec.name])

\* C3: if the file ends before the whole payload of a tensor record has been
\* read, mpt_model_load does not return success.
C3_TruncatedPayloadFailsLoad ==
  (\E i \in 1..Len(copies) : PartlyFilled(i)) => load_ret # "true"

\* C4: whenever mpt_model_load returns failure, the model's tensor registry
\* holds no tensor and no payload of the rejected file has been loaded.
C4_FailedLoadLeavesNoModel ==
  load_ret = "false" => (DOMAIN model_tensors = {} /\ copies = <<>>)

\* C13: once mpt_model_load has read the vocabulary block, id_to_token is
\* defined for exactly the ids 0..n_vocab-1 and token_to_id maps the text of
\* every such id back to that id, whatever byte strings the file holds.
C13_VocabMapsAreInverse ==
  (lpc # "start" /\ fail_at \notin {"open", "magic"}) =>
    /\ DOMAIN vocab.id_to_token = 0..(hparams.n_vocab - 1)
    /\ \A i \in DOMAIN vocab.id_to_token :
         /\ vocab.id_to_token[i] \in DOMAIN vocab.token_to_id
         /\ vocab.token_to_id[vocab.id_to_token[i]] = i

\* the payload reads made for the registered tensor nm
CopiesOf(nm) == {i \in 1..Len(copies) : copies[i].rec.name = nm}

\* C17: mpt_model_load returns success only if every tensor of the registry
\* received its payload from exactly one record of the file: a file that
\* omits a registered tensor, or holds two records for one name, does not
\* load successfully.
C17_SuccessMeansEveryTensorLoadedOnce ==
  load_ret = "true" =>
    \A nm \in DOMAIN model_tensors : Cardinality(CopiesOf(nm)) = 1

\* the first of the four tests, in the claimed order, that a record fails
FirstFailure(reg, rec) ==
  LET known == rec.name \in DOMAIN reg
      t == reg[rec.name]
      declared == IF Len(rec.ne) = 1 THEN rec.ne[1] ELSE rec.ne[1] * rec.ne[2]
      dims == IF Len(rec.ne) = 1 THEN <<rec.ne[1], 1>> ELSE rec.ne
      count_ok == t.ne[1] * t.ne[2] = declared
      dims_ok == t.ne = dims
      size_ok == declared * ggml_type_size(rec.ttype) = ggml_nbytes(t)
  IN CASE ~known -> "unknown"
       [] known /\ ~count_ok -> "nelements"
       [] known /\ count_ok /\ ~dims_ok -> "shape"
       [] known /\ count_ok /\ dims_ok /\ ~size_ok -> "nbytes"
       [] OTHER -> "ok"

====
